---- MODULE Spec2Model ----
(***************************************************************************)
(* The request and response PDU types of the watchman client               *)
(* (rust/watchman_client/src/pdu.rs) and their serde encode/decode         *)
(* contracts.                                                              *)
(*                                                                         *)
(* Wire values are structured values (the data model a serde               *)
(* serializer/deserializer exchanges with the types):                      *)
(*   [t |-> "null"], [t |-> "bool", b], [t |-> "int", n], [t |-> "str", s],*)
(*   [t |-> "arr", a |-> sequence], [t |-> "map", m |-> key -> value].     *)
(* Option<T> is [some |-> FALSE] or [some |-> TRUE, v |-> value].          *)
(* A decode outcome is [kind |-> "ok", v |-> value], [kind |-> "err"] (the *)
(* deserializer returns Err to its caller) or [kind |-> "panic"] (the      *)
(* thread unwinds out of the deserializer).                                *)
(*                                                                         *)
(* 64-bit and 128-bit integers are little-endian sequences of 16-bit       *)
(* limbs, so that the arithmetic keeps the width the code has.             *)
(***************************************************************************)
EXTENDS Integers, Sequences, FiniteSets, TLC

VARIABLES op, arg, res, cstate, baseline

vars == <<op, arg, res, cstate, baseline>>

\* ------------------------------------------------------------ option values
None == [some |-> FALSE]

Some(x) == [some |-> TRUE, v |-> x]

OptionOf(S) == {None} \cup {Some(x) : x \in S}

\* Option::is_none, the skip_serializing_if predicate of optional fields
is_none(o) == ~o.some

\* --------------------------------------------------------- decode outcomes
Ok(x) == [kind |-> "ok", v |-> x]

Err == [kind |-> "err"]

Panic == [kind |-> "panic"]

\* ------------------------------------------------------------- wire values
WNull == [t |-> "null"]

WBool(b) == [t |-> "bool", b |-> b]

WInt(n) == [t |-> "int", n |-> n]

WStr(s) == [t |-> "str", s |-> s]

WArr(a) == [t |-> "arr", a |-> a]

WMap(m) == [t |-> "map", m |-> m]

\* the keys of a wire map
Keys(w) == DOMAIN w.m

\* --------------------------------------------------------- limb arithmetic
LimbBase == 2 ^ 16

\* number of limbs of a u64 / i64
Limbs64 == 64 \div 16

\* number of limbs of a u128
Limbs128 == 128 \div 16

\* a natural number below 2^31 as a value of n limbs
NatToLimbs(v, n) ==
    [i \in 1..n |-> IF i = 1 THEN v % LimbBase
                    ELSE IF i = 2 THEN v \div LimbBase
                    ELSE 0]

\* widening cast (u64 as u128): zero extension
ZeroExtend(x, n) == [i \in 1..n |-> IF i <= Len(x) THEN x[i] ELSE 0]

\* narrowing cast (u128 as i64): the low limbs, the rest is dropped
Truncate(x, n) == [i \in 1..n |-> x[i]]

RECURSIVE MulAddFrom(_, _, _, _)
\* limbs i.. of x * k + carry, in the width of x (wrapping)
MulAddFrom(x, i, k, carry) ==
    IF i > Len(x) THEN <<>>
    ELSE LET t == x[i] * k + carry
         IN  <<t % LimbBase>> \o MulAddFrom(x, i + 1, k, t \div LimbBase)

\* x * k + c in the width of x
MulAdd(x, k, c) == MulAddFrom(x, 1, k, c)

\* two's complement negation in the width of x
Negate(x) == MulAdd([i \in 1..Len(x) |-> LimbBase - 1 - x[i]], 1, 1)

RECURSIVE DivRemFrom(_, _, _, _)
\* limbs 1..i of x (with rem carried in from above) divided by k: quotient
\* limbs and remainder
DivRemFrom(x, i, k, rem) ==
    IF i = 0 THEN [q |-> <<>>, r |-> rem]
    ELSE LET t    == rem * LimbBase + x[i]
             rest == DivRemFrom(x, i - 1, k, t % k)
         IN  [q |-> rest.q \o <<t \div k>>, r |-> rest.r]

\* x divided by a small k
DivRem(x, k) == DivRemFrom(x, Len(x), k, 0)

\* the sign bit of a two's complement value
IsNegative(x) == x[Len(x)] >= LimbBase \div 2

IsZero(x) == \A i \in 1..Len(x) : x[i] = 0

\* i64 literal of a small natural number
I64(v) == NatToLimbs(v, Limbs64)

\* ------------------------------------------------------ std::time::Duration
\* Duration { secs: u64, nanos: u32 }, nanos < 1_000_000_000
NanosPerMilli == 1000000

MillisPerSec == 1000

Dur(secs, nanos) == [secs |-> secs, nanos |-> nanos]

\* Duration::as_millis: secs as u128 * 1000 + (nanos / 1_000_000) as u128
as_millis(d) ==
    MulAdd(ZeroExtend(d.secs, Limbs128), MillisPerSec, d.nanos \div NanosPerMilli)

\* ----------------------------------------------------------------- FileType
FileTypeVariants ==
    {"BlockSpecial", "CharSpecial", "Directory", "Regular",
     "Fifo", "Symlink", "Socket", "SolarisDoor"}

FileTypeTokens == {"b", "c", "d", "f", "p", "l", "s", "D"}

\* a decoder that falls back to Regular on an unknown token
FileType_from_Fallback(s) ==
    CASE s = "b" -> Ok("BlockSpecial")
      [] s = "c" -> Ok("CharSpecial")
      [] s = "d" -> Ok("Directory")
      [] s = "f" -> Ok("Regular")
      [] s = "p" -> Ok("Fifo")
      [] s = "l" -> Ok("Symlink")
      [] s = "s" -> Ok("Socket")
      [] s = "D" -> Ok("SolarisDoor")
      [] OTHER   -> Ok("Regular")

\* impl From<String> for FileType: the match of the token, panic! otherwise
FileType_from(s) ==
    CASE s = "b" -> Ok("BlockSpecial")
      [] s = "c" -> Ok("CharSpecial")
      [] s = "d" -> Ok("Directory")
      [] s = "f" -> Ok("Regular")
      [] s = "p" -> Ok("Fifo")
      [] s = "l" -> Ok("Symlink")
      [] s = "s" -> Ok("Socket")
      [] s = "D" -> Ok("SolarisDoor")
      [] OTHER   -> Panic

\* impl Into<String> for FileType
FileType_into(v) ==
    CASE v = "BlockSpecial" -> "b"
      [] v = "CharSpecial"  -> "c"
      [] v = "Directory"    -> "d"
      [] v = "Regular"      -> "f"
      [] v = "Fifo"         -> "p"
      [] v = "Symlink"      -> "l"
      [] v = "Socket"       -> "s"
      [] v = "SolarisDoor"  -> "D"

\* #[serde(into = "String")]: the variant is written as its token string
SerializeFileType(v) == WStr(FileType_into(v))

\* #[serde(from = "String")]: a String is deserialized (an error for any
\* other wire value) and handed to From<String>
DeserializeFileType(w) ==
    IF w.t = "str" THEN FileType_from(w.s) ELSE Err

\* -------------------------------------------------------------- SyncTimeout
\* enum SyncTimeout { Default, DisableCookie, Duration(std::time::Duration) }
StDefault == [tag |-> "Default"]

StDisableCookie == [tag |-> "DisableCookie"]

StDuration(d) == [tag |-> "Duration", d |-> d]

\* the server's default sync timeout in milliseconds
DefaultSyncTimeoutMillis == 60000

\* impl Default for SyncTimeout
SyncTimeout_default == StDefault

\* SyncTimeout::is_default
is_default(st) == st.tag = "Default"

\* is_disabled with the variant confused
is_disabled_Swapped(st) == st.tag = "Default"

\* SyncTimeout::is_disabled
is_disabled(st) == st.tag = "DisableCookie"

\* a constructor that only collapses the exactly-zero duration
SyncTimeout_from_ZeroOnly(duration) ==
    IF IsZero(duration.secs) /\ duration.nanos = 0
    THEN StDisableCookie
    ELSE StDuration(duration)

\* impl From<std::time::Duration> for SyncTimeout
SyncTimeout_from(duration) ==
    LET millis == as_millis(duration)
    IN  IF IsZero(millis) THEN StDisableCookie ELSE StDuration(duration)

\* impl Into<i64> for SyncTimeout; `as i64` keeps the low 64 bits
SyncTimeout_into(st) ==
    CASE st.tag = "Default"       -> I64(DefaultSyncTimeoutMillis)
      [] st.tag = "DisableCookie" -> I64(0)
      [] st.tag = "Duration"      -> Truncate(as_millis(st.d), Limbs64)

\* #[serde(into = "i64")]
SerializeSyncTimeout(st) == WInt(SyncTimeout_into(st))

\* ----------------------------------------------------------- wire records
\* a serialized struct field: the key with its value
Field(k, val) == k :> val

\* a field behind #[serde(skip_serializing_if = ...)]: left out when skip holds
SkipField(skip, k, val) == IF skip THEN <<>> ELSE k :> val

\* Option<T> deserialized by a derived struct: a missing key and a null both
\* give None, any other value is handed to T's deserializer, whose outcome on
\* the key's value is `inner` (looked at only when there is such a value)
DeserializeOption(m, k, inner) ==
    IF k \notin DOMAIN m THEN Ok(None)
    ELSE IF m[k].t = "null" THEN Ok(None)
    ELSE IF inner.kind = "ok" THEN Ok(Some(inner.v)) ELSE inner

\* String / PathBuf
DeserializeString(w) == IF w.t = "str" THEN Ok(w.s) ELSE Err

\* bool
DeserializeBool(w) == IF w.t = "bool" THEN Ok(w.b) ELSE Err

\* serde_json::Value: every wire value is a Value
DeserializeValue(w) == Ok(w)

\* a required field of a derived struct: a missing key is an error
DeserializeRequired(m, k, inner) ==
    IF k \notin DOMAIN m THEN Err ELSE inner

\* a field with #[serde(default)]: a missing key gives the default
DeserializeDefault(m, k, inner, dflt) ==
    IF k \notin DOMAIN m THEN Ok(dflt) ELSE inner

\* the fields a derived struct deserializer reads: the entries of a record,
\* or the elements of a sequence taken in declaration order, one per field as
\* far as the elements and the fields go; nothing for any other value
StructFields(w, names) ==
    IF w.t = "map" THEN Some(w.m)
    ELSE IF w.t = "arr"
    THEN LET n == IF Len(w.a) < Len(names) THEN Len(w.a) ELSE Len(names)
         IN  Some([k \in {names[i] : i \in 1..n} |->
                       w.a[CHOOSE i \in 1..n : names[i] = k]])
    ELSE None

\* a sequence has to hold exactly one element per field; this is noticed once
\* the elements it has have been read, when an element is missing for a field
\* without a default (the last field of every struct here is one) or when
\* elements are left over
SequenceComplete(w, names) == w.t = "arr" => Len(w.a) = Len(names)

\* -------------------------------------------------------------------- Clock
\* struct ClockSpec(String)
ClockSpec(s) == [token |-> s]

\* ClockSpec::null
ClockSpec_null == ClockSpec("c:0:0")

\* impl Default for ClockSpec
ClockSpec_default == ClockSpec_null

\* a constructor that hands the cursor name over without the prefix
ClockSpec_named_cursor_NoPrefix(cursor) == ClockSpec(cursor)

\* ClockSpec::named_cursor: format!("n:{}", cursor)
ClockSpec_named_cursor(cursor) == ClockSpec("n:" \o cursor)

\* the character of a decimal digit
DigitChar(d) ==
    CASE d = 0 -> "0" [] d = 1 -> "1" [] d = 2 -> "2" [] d = 3 -> "3"
      [] d = 4 -> "4" [] d = 5 -> "5" [] d = 6 -> "6" [] d = 7 -> "7"
      [] d = 8 -> "8" [] d = 9 -> "9"

RECURSIVE DecimalDigits(_)
\* the decimal digits of an unsigned value, most significant first; none for 0
DecimalDigits(x) ==
    IF IsZero(x) THEN ""
    ELSE LET dr == DivRem(x, 10)
         IN  DecimalDigits(dr.q) \o DigitChar(dr.r)

\* i64::to_string: a minus sign for a negative value, then the magnitude
i64_to_string(x) ==
    LET mag == IF IsNegative(x) THEN Negate(x) ELSE x
    IN  (IF IsNegative(x) THEN "-" ELSE "")
            \o (IF IsZero(mag) THEN "0" ELSE DecimalDigits(mag))

\* ClockSpec::unix_timestamp: time_t.to_string()
ClockSpec_unix_timestamp(time_t) == ClockSpec(i64_to_string(time_t))

\* enum Clock { Spec(ClockSpec), ScmAware(FatClockData) }
ClockOfSpec(cs) == [tag |-> "Spec", spec |-> cs]

ClockScmAware(fat) == [tag |-> "ScmAware", fat |-> fat]

\* a newtype struct is written as its inner value
SerializeClockSpec(cs) == WStr(cs.token)

DeserializeClockSpec(w) == IF w.t = "str" THEN Ok(ClockSpec(w.s)) ELSE Err

\* #[skip_serializing_none] struct SavedStateClockData
SerializeSavedState(ss) ==
    WMap(SkipField(is_none(ss.storage), "storage", WStr(ss.storage.v))
         @@ SkipField(is_none(ss.commit), "commit-id", WStr(ss.commit.v))
         @@ SkipField(is_none(ss.config), "config", ss.config.v))

\* the fields of the struct under their wire names, in declaration order
SavedStateFields == <<"storage", "commit-id", "config">>

\* #[derive(Deserialize)] struct SavedStateClockData
DeserializeSavedState(w) ==
    IF is_none(StructFields(w, SavedStateFields)) THEN Err
    ELSE LET m       == StructFields(w, SavedStateFields).v
             storage == DeserializeOption(m, "storage", DeserializeString(m["storage"]))
             commit  == DeserializeOption(m, "commit-id", DeserializeString(m["commit-id"]))
             config  == DeserializeOption(m, "config", DeserializeValue(m["config"]))
         IN  IF storage.kind = "ok" /\ commit.kind = "ok" /\ config.kind = "ok"
                /\ SequenceComplete(w, SavedStateFields)
             THEN Ok([storage |-> storage.v, commit |-> commit.v,
                      config |-> config.v])
             ELSE Err

\* #[skip_serializing_none] struct ScmAwareClockData
SerializeScmAware(scm) ==
    WMap(SkipField(is_none(scm.mergebase), "mergebase", WStr(scm.mergebase.v))
         @@ SkipField(is_none(scm.mergebase_with), "mergebase-with",
                      WStr(scm.mergebase_with.v))
         @@ SkipField(is_none(scm.saved_state), "saved-state",
                      SerializeSavedState(scm.saved_state.v)))

\* the fields of the struct under their wire names, in declaration order
ScmAwareFields == <<"mergebase", "mergebase-with", "saved-state">>

\* #[derive(Deserialize)] struct ScmAwareClockData
DeserializeScmAware(w) ==
    IF is_none(StructFields(w, ScmAwareFields)) THEN Err
    ELSE LET m         == StructFields(w, ScmAwareFields).v
             mergebase == DeserializeOption(m, "mergebase", DeserializeString(m["mergebase"]))
             mbwith    == DeserializeOption(m, "mergebase-with", DeserializeString(m["mergebase-with"]))
             saved     == DeserializeOption(m, "saved-state", DeserializeSavedState(m["saved-state"]))
         IN  IF mergebase.kind = "ok" /\ mbwith.kind = "ok" /\ saved.kind = "ok"
                /\ SequenceComplete(w, ScmAwareFields)
             THEN Ok([mergebase |-> mergebase.v, mergebase_with |-> mbwith.v,
                      saved_state |-> saved.v])
             ELSE Err

\* #[skip_serializing_none] struct FatClockData
SerializeFatClockData(fat) ==
    WMap(Field("clock", SerializeClockSpec(fat.clock))
         @@ SkipField(is_none(fat.scm), "scm", SerializeScmAware(fat.scm.v)))

\* the fields of the struct under their wire names, in declaration order
FatClockDataFields == <<"clock", "scm">>

\* #[derive(Deserialize)] struct FatClockData
DeserializeFatClockData(w) ==
    IF is_none(StructFields(w, FatClockDataFields)) THEN Err
    ELSE LET m     == StructFields(w, FatClockDataFields).v
             clock == DeserializeRequired(m, "clock", DeserializeClockSpec(m["clock"]))
             scm   == DeserializeOption(m, "scm", DeserializeScmAware(m["scm"]))
         IN  IF clock.kind = "ok" /\ scm.kind = "ok"
                /\ SequenceComplete(w, FatClockDataFields)
             THEN Ok([clock |-> clock.v, scm |-> scm.v])
             ELSE Err

\* #[serde(untagged)] enum Clock: the variant's content, no tag
SerializeClock(c) ==
    IF c.tag = "Spec" THEN SerializeClockSpec(c.spec)
    ELSE SerializeFatClockData(c.fat)

\* #[serde(untagged)] enum Clock: the variants are tried in declaration order
DeserializeClock(w) ==
    LET spec == DeserializeClockSpec(w)
        fat  == DeserializeFatClockData(w)
    IN  IF spec.kind = "ok" THEN Ok(ClockOfSpec(spec.v))
        ELSE IF fat.kind = "ok" THEN Ok(ClockScmAware(fat.v))
        ELSE Err

\* ----------------------------------------------------------------- requests
\* Vec<String>, Vec<PathBuf>, Vec<&'static str>: an array of strings
SerializeStrings(a) == WArr([i \in 1..Len(a) |-> WStr(a[i])])

\* crate::expr::Expr, an opaque filter term passed through to the encoder
SerializeExpr(e) == WArr(<<WStr(e)>>)

\* #[serde(untagged)] enum PathGeneratorElement
SerializePathGeneratorElement(e) ==
    IF e.tag = "RecursivePath" THEN WStr(e.path)
    ELSE WMap(Field("path", WStr(e.path)) @@ Field("depth", WInt(e.depth)))

SerializePaths(a) == WArr([i \in 1..Len(a) |-> SerializePathGeneratorElement(a[i])])

\* a skip predicate that drops the flag whatever its value
is_false_Always(v) == TRUE

\* fn is_false(v: &bool) -> bool
is_false(v) == ~v

\* struct ClockRequestParams
SerializeClockRequestParams(p) ==
    WMap(SkipField(is_disabled(p.sync_timeout), "sync_timeout",
                   SerializeSyncTimeout(p.sync_timeout)))

\* struct ClockRequest(&'static str, PathBuf, ClockRequestParams)
SerializeClockRequest(root, p) ==
    WArr(<<WStr("clock"), WStr(root), SerializeClockRequestParams(p)>>)

\* the skip predicate of QueryRequestCommon::sync_timeout
SyncTimeoutSkippedInQuery(st) == is_default(st)

\* #[derive(Serialize)] struct QueryRequestCommon
SerializeQueryRequestCommon(q) ==
    WMap(SkipField(is_none(q.glob), "glob", SerializeStrings(q.glob.v))
         @@ SkipField(is_false(q.glob_noescape), "glob_noescape",
                      WBool(q.glob_noescape))
         @@ SkipField(is_false(q.glob_includedotfiles), "glob_includedotfiles",
                      WBool(q.glob_includedotfiles))
         @@ SkipField(is_none(q.path), "path", SerializePaths(q.path.v))
         @@ SkipField(is_none(q.suffix), "suffix", SerializeStrings(q.suffix.v))
         @@ SkipField(is_none(q.since), "since", SerializeClock(q.since.v))
         @@ SkipField(is_none(q.relative_root), "relative_root",
                      WStr(q.relative_root.v))
         @@ SkipField(is_none(q.expression), "expression",
                      SerializeExpr(q.expression.v))
         @@ Field("fields", SerializeStrings(q.fields))
         @@ SkipField(is_false(q.empty_on_fresh_instance),
                      "empty_on_fresh_instance", WBool(q.empty_on_fresh_instance))
         @@ SkipField(is_false(q.case_sensitive), "case_sensitive",
                      WBool(q.case_sensitive))
         @@ SkipField(SyncTimeoutSkippedInQuery(q.sync_timeout), "sync_timeout",
                      SerializeSyncTimeout(q.sync_timeout))
         @@ SkipField(is_false(q.dedup_results), "dedup_results",
                      WBool(q.dedup_results))
         @@ SkipField(is_none(q.lock_timeout), "lock_timeout",
                      WInt(q.lock_timeout.v))
         @@ SkipField(is_none(q.request_id), "request_id", WStr(q.request_id.v)))

\* struct QueryRequest(&'static str, PathBuf, QueryRequestCommon)
SerializeQueryRequest(root, q) ==
    WArr(<<WStr("query"), WStr(root), SerializeQueryRequestCommon(q)>>)

\* #[derive(Serialize)] struct SubscribeRequest
SerializeSubscribeRequest(r) ==
    WMap(SkipField(is_none(r.since), "since", SerializeClock(r.since.v))
         @@ SkipField(is_none(r.relative_root), "relative_root",
                      WStr(r.relative_root.v))
         @@ SkipField(is_none(r.expression), "expression",
                      SerializeExpr(r.expression.v))
         @@ Field("fields", SerializeStrings(r.fields))
         @@ SkipField(is_false(r.empty_on_fresh_instance),
                      "empty_on_fresh_instance", WBool(r.empty_on_fresh_instance))
         @@ SkipField(is_false(r.case_sensitive), "case_sensitive",
                      WBool(r.case_sensitive)))

\* struct SubscribeCommand(&'static str, PathBuf, String, SubscribeRequest)
SerializeSubscribeCommand(root, name, r) ==
    WArr(<<WStr("subscribe"), WStr(root), WStr(name), SerializeSubscribeRequest(r)>>)

\* the fields of the struct under their wire names, in declaration order
GetSockNameResponseFields == <<"version", "sockname", "error">>

\* ---------------------------------------------------------------- responses
\* #[derive(Deserialize)] struct GetSockNameResponse
DeserializeGetSockNameResponse(w) ==
    IF is_none(StructFields(w, GetSockNameResponseFields)) THEN Err
    ELSE LET m        == StructFields(w, GetSockNameResponseFields).v
             version  == DeserializeRequired(m, "version", DeserializeString(m["version"]))
             sockname == DeserializeOption(m, "sockname", DeserializeString(m["sockname"]))
             error    == DeserializeOption(m, "error", DeserializeString(m["error"]))
         IN  IF version.kind = "ok" /\ sockname.kind = "ok" /\ error.kind = "ok"
                /\ SequenceComplete(w, GetSockNameResponseFields)
             THEN Ok([version |-> version.v, sockname |-> sockname.v,
                      error |-> error.v])
             ELSE Err

\* the fields of the struct under their wire names, in declaration order
ClockResponseFields == <<"version", "clock">>

\* #[derive(Deserialize)] struct ClockResponse: version and clock, any other
\* key of the record is ignored
DeserializeClockResponse(w) ==
    IF is_none(StructFields(w, ClockResponseFields)) THEN Err
    ELSE LET m       == StructFields(w, ClockResponseFields).v
             version == DeserializeRequired(m, "version", DeserializeString(m["version"]))
             clock   == DeserializeRequired(m, "clock", DeserializeClockSpec(m["clock"]))
         IN  IF version.kind = "ok" /\ clock.kind = "ok"
                /\ SequenceComplete(w, ClockResponseFields)
             THEN Ok([version |-> version.v, clock |-> clock.v])
             ELSE Err

\* ----------------------------------------------------------- ContentSha1Hex
\* enum ContentSha1Hex { Hash(String), Error { error: String } }
ShaHash(s) == [tag |-> "Hash", hash |-> s]

ShaError(e) == [tag |-> "Error", error |-> e]

\* the struct variant Error { error } of the untagged enum: read from a
\* record with the key only, a sequence does not match it
DeserializeShaErrorVariant(w) ==
    IF w.t = "map"
    THEN LET error == DeserializeRequired(w.m, "error", DeserializeString(w.m["error"]))
         IN  IF error.kind = "ok" THEN Ok(ShaError(error.v)) ELSE Err
    ELSE Err

\* a decoder that rejects the Error shape
DeserializeContentSha1Hex_HashOnly(w) ==
    IF w.t = "str" THEN Ok(ShaHash(w.s)) ELSE Err

\* #[serde(untagged)] enum ContentSha1Hex: Hash is tried first, then Error
DeserializeContentSha1Hex(w) ==
    IF w.t = "str" THEN Ok(ShaHash(w.s))
    ELSE DeserializeShaErrorVariant(w)

\* -------------------------------------------------------------- QueryResult
\* how a decode that did not succeed ends
Failure(o) == IF o.kind = "panic" THEN Panic ELSE Err

\* Vec<F>: the outcomes of the elements, in order; the first failure ends it
CollectVec(rs) ==
    LET bad == {i \in 1..Len(rs) : rs[i].kind # "ok"}
    IN  IF bad = {} THEN Ok([i \in 1..Len(rs) |-> rs[i].v])
        ELSE Failure(rs[CHOOSE i \in bad : \A j \in bad : i <= j])

\* a decoder that takes a result without the flag for a fresh instance
DeserializeFresh_DefaultTrue(m) ==
    DeserializeDefault(m, "is_fresh_instance", DeserializeBool(m["is_fresh_instance"]), TRUE)

\* #[serde(default)] pub is_fresh_instance: bool
DeserializeFresh(m) ==
    DeserializeDefault(m, "is_fresh_instance", DeserializeBool(m["is_fresh_instance"]), FALSE)

\* the fields of QueryResult<F> under their wire names, in declaration order
QueryResultFields ==
    <<"version", "is_fresh_instance", "files", "canceled", "state-enter", "state-leave">>

\* the wire value of the files field of a result, if it has one
FilesValue(w) == StructFields(w, QueryResultFields).v["files"]

\* #[derive(Deserialize)] struct QueryResult<F>; `files` is the outcome of
\* Vec<F>'s deserializer on the value of the files field. The fields are read
\* in the order the wire value lists them and the first one that fails ends
\* the decode: a sequence lists them in declaration order, a record in an order
\* of its own, so with several failing keys each of them may be the one that
\* ends it. A missing version is noticed after every key has been read. The
\* value is the set of outcomes.
DeserializeQueryResult(w, files) ==
    IF is_none(StructFields(w, QueryResultFields)) THEN {Err}
    ELSE LET m     == StructFields(w, QueryResultFields).v
             names == QueryResultFields
             out   == [k \in {names[i] : i \in 1..Len(names)} |->
                          CASE k = "version" ->
                                 DeserializeRequired(m, k, DeserializeString(m[k]))
                            [] k = "is_fresh_instance" -> DeserializeFresh(m)
                            [] k = "files" -> DeserializeOption(m, k, files)
                            [] k = "canceled" ->
                                 DeserializeDefault(m, k, DeserializeBool(m[k]), FALSE)
                            [] OTHER ->
                                 DeserializeOption(m, k, DeserializeString(m[k]))]
             bad   == {k \in DOMAIN out \cap DOMAIN m : out[k].kind # "ok"}
             first == CHOOSE i \in 1..Len(names) :
                          /\ names[i] \in bad
                          /\ \A j \in 1..(i - 1) : names[j] \notin bad
         IN  IF bad # {}
             THEN IF w.t = "arr" THEN {Failure(out[names[first]])}
                  ELSE {Failure(out[k]) : k \in bad}
             ELSE IF ~SequenceComplete(w, names) THEN {Err}
             ELSE IF "version" \notin DOMAIN m THEN {Err}
             ELSE {Ok([version |-> out["version"].v,
                       is_fresh_instance |-> out["is_fresh_instance"].v,
                       files |-> out["files"].v,
                       subscription_canceled |-> out["canceled"].v,
                       state_enter |-> out["state-enter"].v,
                       state_leave |-> out["state-leave"].v])}

\* the fields of the struct under their wire names, in declaration order
NameAndHashFields == <<"name", "content.sha1hex">>

\* a caller's file record for the fields ["name", "content.sha1hex"]
DeserializeNameAndHash(w) ==
    IF is_none(StructFields(w, NameAndHashFields)) THEN Err
    ELSE LET m    == StructFields(w, NameAndHashFields).v
             name == DeserializeRequired(m, "name", DeserializeString(m["name"]))
             hash == DeserializeRequired(m, "content.sha1hex",
                                         DeserializeContentSha1Hex(m["content.sha1hex"]))
         IN  IF name.kind = "ok" /\ hash.kind = "ok"
                /\ SequenceComplete(w, NameAndHashFields)
             THEN Ok([name |-> name.v, hash |-> hash.v])
             ELSE Err

\* the fields of the struct under their wire names, in declaration order
NameAndExistsFields == <<"name", "exists">>

\* a caller's file record for the fields ["name", "exists"]
DeserializeNameAndExists(w) ==
    IF is_none(StructFields(w, NameAndExistsFields)) THEN Err
    ELSE LET m      == StructFields(w, NameAndExistsFields).v
             name   == DeserializeRequired(m, "name", DeserializeString(m["name"]))
             exists == DeserializeRequired(m, "exists", DeserializeBool(m["exists"]))
         IN  IF name.kind = "ok" /\ exists.kind = "ok"
                /\ SequenceComplete(w, NameAndExistsFields)
             THEN Ok([name |-> name.v, exists |-> exists.v])
             ELSE Err

\* Vec<F> of the two file records: an array whose elements all decode
DeserializeNameAndHashVec(w) ==
    IF w.t # "arr" THEN Err
    ELSE CollectVec([i \in 1..Len(w.a) |-> DeserializeNameAndHash(w.a[i])])

DeserializeNameAndExistsVec(w) ==
    IF w.t # "arr" THEN Err
    ELSE CollectVec([i \in 1..Len(w.a) |-> DeserializeNameAndExists(w.a[i])])

\* ------------------------------------------------------------------- inputs
\* whole seconds 0..MaxSecs are drawn next to the extreme values
MaxSecs == 2

\* longest file list of a result
MaxFiles == 2

\* i64::MAX / 1000 = 9223372036854775 seconds
SecsI64MaxMillis == <<21495, 42467, 50331, 32>>

\* u64::MAX seconds, the longest Duration
SecsU64Max == <<65535, 65535, 65535, 65535>>

SecsValues ==
    {NatToLimbs(k, Limbs64) : k \in 0..MaxSecs} \cup {SecsI64MaxMillis, SecsU64Max}

NanosValues == {0, 1, 999999, 1000000, 500000000, 807000000, 808000000, 999999999}

Durations == {Dur(sec, n) : sec \in SecsValues, n \in NanosValues}

SyncTimeouts == {StDefault, StDisableCookie} \cup {StDuration(d) : d \in Durations}

Sha1Text == "da39a3ee5e6b4b0d3255bfef95601890afd80709"

FileTypeStrings == FileTypeTokens \cup {"", "x", "B", "F", "bb", "file", "?"}

FileTypeWires == {WStr(x) : x \in FileTypeStrings} \cup {WNull, WBool(TRUE)}

\* serde_json::Value contents of saved-state config
ConfigValues == {WNull, WStr("cfg"), WMap(Field("project", WStr("www")))}

SavedStates ==
    [storage : OptionOf({"manifold"}), commit : OptionOf({"abc"}),
     config : OptionOf(ConfigValues)]

ScmDatas ==
    [mergebase : OptionOf({"m1"}), mergebase_with : OptionOf({"master"}),
     saved_state : OptionOf(SavedStates)]

ClockSpecs == {ClockSpec_null, ClockSpec("c:1:2")}

FatClocks == [clock : ClockSpecs, scm : OptionOf(ScmDatas)]

Clocks == {ClockOfSpec(cs) : cs \in ClockSpecs} \cup {ClockScmAware(f) : f \in FatClocks}

\* the clocks drawn inside a query bundle
BundleClocks ==
    {ClockOfSpec(ClockSpec_null),
     ClockScmAware([clock |-> ClockSpec("c:1:2"),
                    scm |-> Some([mergebase |-> Some("m1"), mergebase_with |-> None,
                                  saved_state |-> None])])}

PathElements ==
    <<[tag |-> "RecursivePath", path |-> "src"],
      [tag |-> "ConstrainedDepth", path |-> "lib", depth |-> I64(1)]>>

QueryBundles ==
    [glob : OptionOf({<<"*.rs">>}),
     glob_noescape : BOOLEAN,
     glob_includedotfiles : BOOLEAN,
     path : OptionOf({PathElements}),
     suffix : OptionOf({<<"rs">>}),
     since : OptionOf(BundleClocks),
     relative_root : OptionOf({"sub"}),
     expression : OptionOf({"true"}),
     fields : {<<>>, <<"name">>},
     empty_on_fresh_instance : BOOLEAN,
     case_sensitive : BOOLEAN,
     sync_timeout : {StDefault, StDisableCookie, StDuration(Dur(I64(1), 500000000))},
     dedup_results : BOOLEAN,
     lock_timeout : OptionOf({I64(0)}),
     request_id : OptionOf({"req"})]

\* #[derive(Default)] for QueryRequestCommon
QueryRequestCommon_default ==
    [glob |-> None, glob_noescape |-> FALSE, glob_includedotfiles |-> FALSE,
     path |-> None, suffix |-> None, since |-> None, relative_root |-> None,
     expression |-> None, fields |-> <<>>, empty_on_fresh_instance |-> FALSE,
     case_sensitive |-> FALSE, sync_timeout |-> SyncTimeout_default,
     dedup_results |-> FALSE, lock_timeout |-> None, request_id |-> None]

SubscribeRequests ==
    [since : OptionOf(Clocks),
     relative_root : OptionOf({"sub"}),
     expression : OptionOf({"true"}),
     fields : {<<>>, <<"name">>},
     empty_on_fresh_instance : BOOLEAN,
     case_sensitive : BOOLEAN]

\* an scm record as the server writes it
ScmWire == WMap(Field("mergebase", WStr("m1")) @@ Field("mergebase-with", WStr("main")))

\* wire values handed to the Clock decoder: tokens, records with and without
\* the keys, sequences, scalars, and everything the encoder writes
ClockWires ==
    {WStr("c:1:2"), WStr(""), WNull, WBool(TRUE), WInt(I64(7)),
     WMap(<<>>),
     WMap(Field("clock", WStr("c:1:2"))),
     WMap(Field("clock", WStr("c:1:2")) @@ Field("scm", WNull)),
     WMap(Field("clock", WStr("c:1:2")) @@ Field("scm", ScmWire)),
     WMap(Field("clock", WStr("c:1:2")) @@ Field("scm", WInt(I64(7)))),
     WMap(Field("clock", WStr("c:1:2")) @@ Field("extra", WBool(TRUE))),
     WMap(Field("clock", WInt(I64(7)))),
     WMap(Field("clock", WNull)),
     WMap(Field("scm", ScmWire)),
     WArr(<<>>),
     WArr(<<WStr("c:1:2")>>),
     WArr(<<WStr("c:1:2"), WNull>>),
     WArr(<<WStr("c:1:2"), ScmWire>>),
     WArr(<<WStr("c:1:2"), WArr(<<WStr("m1"), WNull, WNull>>)>>),
     WArr(<<WStr("c:1:2"), WNull, WNull>>),
     WArr(<<WInt(I64(7)), WNull>>)}
        \cup {SerializeClock(c) : c \in Clocks}

\* timestamps 0..MaxTime and their negatives are drawn next to the extremes
MaxTime == 12

I64Max == <<65535, 65535, 65535, 32767>>

I64Min == <<0, 0, 0, 32768>>

\* 2^32
TwoTo32 == <<0, 0, 1, 0>>

TimeTs ==
    {I64(k) : k \in 0..MaxTime} \cup {Negate(I64(k)) : k \in 1..MaxTime}
        \cup {I64(1500000000), Negate(I64(1500000000)), TwoTo32, I64Max, I64Min}

CursorNames == {"", "foo", "my tool", "n:foo", "c:0:0"}

\* a wire record from optional entries
Entry(k, o) == IF o.some THEN k :> o.v ELSE <<>>

ErrorFieldValues == OptionOf({WNull, WStr("boom"), WBool(TRUE)})

GetSockNameWires ==
    {WMap(Entry("version", ver) @@ Entry("sockname", sock) @@ Entry("error", e)) :
        ver \in OptionOf({WStr("4.9")}),
        sock \in OptionOf({WStr("/tmp/sock"), WNull}),
        e \in ErrorFieldValues}
    \cup {WNull,
          WArr(<<WStr("4.9"), WNull, WNull>>),
          WArr(<<WStr("4.9"), WStr("/tmp/sock"), WStr("boom")>>),
          WArr(<<WStr("4.9"), WNull>>)}

ClockResponseWires ==
    {WMap(Entry("version", ver) @@ Entry("clock", c) @@ Entry("error", e)) :
        ver \in OptionOf({WStr("4.9")}),
        c \in OptionOf({WStr("c:1:2"), WNull}),
        e \in ErrorFieldValues}
    \cup {WNull,
          WArr(<<WStr("4.9"), WStr("c:1:2")>>),
          WArr(<<WStr("4.9"), WStr("c:1:2"), WStr("boom")>>)}

HashPayloads ==
    {WStr(Sha1Text), WStr("abc"),
     WMap(Field("error", WStr("no such file"))),
     WMap(Field("error", WStr("no such file")) @@ Field("code", WStr("ENOENT"))),
     WMap(Field("error", WBool(TRUE))),
     WMap(Field("message", WStr("no such file"))),
     WArr(<<WStr("no such file")>>),
     WArr(<<>>),
     WNull, WBool(TRUE)}

FileNames == {"a", "b", "c"}

\* sequences of at most n elements of S
SeqUpTo(S, n) == UNION {[1..k -> S] : k \in 0..n}

\* file lists naming each file once
DistinctNames(fs) == \A i, j \in 1..Len(fs) : i # j => fs[i].name # fs[j].name

HashFileLists ==
    {fs \in SeqUpTo([name : {"a", "b"}, p : HashPayloads], MaxFiles) : DistinctNames(fs)}

HashFileWire(f) == WMap(Field("name", WStr(f.name)) @@ Field("content.sha1hex", f.p))

HashResultWires ==
    {WMap(Field("version", WStr("4.9"))
          @@ Field("files", WArr([i \in 1..Len(fs) |-> HashFileWire(fs[i])]))) :
        fs \in HashFileLists}
    \cup {WArr(<<WStr("4.9"), WBool(TRUE), WNull, WBool(FALSE), WNull, WNull>>),
          WArr(<<WStr("4.9"), WBool(FALSE),
                 WArr(<<WArr(<<WStr("a"), WStr("abc")>>),
                        WArr(<<WStr("b"), WMap(Field("error", WStr("no such file")))>>)>>),
                 WBool(FALSE), WNull, WNull>>),
          WArr(<<WInt(I64(1)), WNull, WArr(<<WNull>>), WBool(FALSE), WNull, WNull>>),
          WArr(<<WStr("4.9"), WBool(TRUE), WNull>>),
          WMap(Field("version", WInt(I64(1))) @@ Field("files", WArr(<<WNull>>))),
          WMap(Field("files", WArr(<<>>)))}

\* ------------------------------------------------------------------ actions
Init ==
    /\ op = "init"
    /\ arg = None
    /\ res = None
    /\ cstate = "Unknown"
    /\ baseline = {}

DecodeFileType ==
    /\ op = "init"
    /\ \E w \in FileTypeWires :
        /\ op' = "decodeFileType"
        /\ arg' = w
        /\ res' = DeserializeFileType(w)
        /\ UNCHANGED <<cstate, baseline>>

EncodeFileType ==
    /\ op = "init"
    /\ \E v \in FileTypeVariants :
        /\ op' = "encodeFileType"
        /\ arg' = v
        /\ res' = SerializeFileType(v)
        /\ UNCHANGED <<cstate, baseline>>

SyncTimeoutFromDuration ==
    /\ op = "init"
    /\ \E d \in Durations :
        /\ op' = "syncTimeoutFrom"
        /\ arg' = d
        /\ res' = SyncTimeout_from(d)
        /\ UNCHANGED <<cstate, baseline>>

EncodeSyncTimeout ==
    /\ op = "init"
    /\ \E st \in SyncTimeouts :
        /\ op' = "encodeSyncTimeout"
        /\ arg' = st
        /\ res' = SerializeSyncTimeout(st)
        /\ UNCHANGED <<cstate, baseline>>

EncodeClockRequest ==
    /\ op = "init"
    /\ \E st \in SyncTimeouts :
        /\ op' = "encodeClockRequest"
        /\ arg' = [sync_timeout |-> st]
        /\ res' = SerializeClockRequest("/repo", arg')
        /\ UNCHANGED <<cstate, baseline>>

EncodeQueryRequest ==
    /\ op = "init"
    /\ \E q \in QueryBundles :
        /\ op' = "encodeQueryRequest"
        /\ arg' = q
        /\ res' = SerializeQueryRequest("/repo", q)
        /\ UNCHANGED <<cstate, baseline>>

\* the subscribe command is written and its since clock is read back
RoundTripSubscribe ==
    /\ op = "init"
    /\ \E r \in SubscribeRequests :
        /\ op' = "roundTripSubscribe"
        /\ arg' = r
        /\ LET cmd == SerializeSubscribeCommand("/repo", "sub1", r)
           IN  res' = [wire |-> cmd,
                       since |-> DeserializeOption(cmd.a[4].m, "since", DeserializeClock(cmd.a[4].m["since"]))]
        /\ UNCHANGED <<cstate, baseline>>

DecodeGetSockNameResponse ==
    /\ op = "init"
    /\ \E w \in GetSockNameWires :
        /\ op' = "decodeGetSockNameResponse"
        /\ arg' = w
        /\ res' = DeserializeGetSockNameResponse(w)
        /\ UNCHANGED <<cstate, baseline>>

DecodeClockResponse ==
    /\ op = "init"
    /\ \E w \in ClockResponseWires :
        /\ op' = "decodeClockResponse"
        /\ arg' = w
        /\ res' = DeserializeClockResponse(w)
        /\ UNCHANGED <<cstate, baseline>>

DecodeContentSha1Hex ==
    /\ op = "init"
    /\ \E w \in HashPayloads :
        /\ op' = "decodeContentSha1Hex"
        /\ arg' = w
        /\ res' = DeserializeContentSha1Hex(w)
        /\ UNCHANGED <<cstate, baseline>>

DecodeHashResult ==
    /\ op = "init"
    /\ \E w \in HashResultWires :
        /\ op' = "decodeHashResult"
        /\ arg' = w
        /\ \E r \in DeserializeQueryResult(w, DeserializeNameAndHashVec(FilesValue(w))) :
              res' = r
        /\ UNCHANGED <<cstate, baseline>>

DecodeClock ==
    /\ op = "init"
    /\ \E w \in ClockWires :
        /\ op' = "decodeClock"
        /\ arg' = w
        /\ res' = DeserializeClock(w)
        /\ UNCHANGED <<cstate, baseline>>

\* a Clock is written out and the written value is read back
RoundTripClock ==
    /\ op = "init"
    /\ \E c \in Clocks :
        /\ op' = "roundTripClock"
        /\ arg' = c
        /\ res' = [wire |-> SerializeClock(c),
                   back |-> DeserializeClock(SerializeClock(c))]
        /\ UNCHANGED <<cstate, baseline>>

ClockSpecNull ==
    /\ op = "init"
    /\ op' = "clockSpecNull"
    /\ arg' = None
    /\ res' = ClockSpec_null
    /\ UNCHANGED <<cstate, baseline>>

ClockSpecDefault ==
    /\ op = "init"
    /\ op' = "clockSpecDefault"
    /\ arg' = None
    /\ res' = ClockSpec_default
    /\ UNCHANGED <<cstate, baseline>>

ClockSpecNamedCursor ==
    /\ op = "init"
    /\ \E name \in CursorNames :
        /\ op' = "clockSpecNamedCursor"
        /\ arg' = name
        /\ res' = ClockSpec_named_cursor(name)
        /\ UNCHANGED <<cstate, baseline>>

ClockSpecUnixTimestamp ==
    /\ op = "init"
    /\ \E t \in TimeTs :
        /\ op' = "clockSpecUnixTimestamp"
        /\ arg' = t
        /\ res' = ClockSpec_unix_timestamp(t)
        /\ UNCHANGED <<cstate, baseline>>

\* the call returns; its values are dropped
Return ==
    /\ op \notin {"init", "receive"}
    /\ op' = "init"
    /\ arg' = None
    /\ res' = None
    /\ UNCHANGED <<cstate, baseline>>

Next ==
    \/ DecodeClock
    \/ RoundTripClock
    \/ DecodeFileType
    \/ EncodeFileType
    \/ SyncTimeoutFromDuration
    \/ EncodeSyncTimeout
    \/ EncodeClockRequest
    \/ EncodeQueryRequest
    \/ RoundTripSubscribe
    \/ DecodeGetSockNameResponse
    \/ DecodeClockResponse
    \/ DecodeContentSha1Hex
    \/ DecodeHashResult
    \/ ClockSpecNull
    \/ ClockSpecDefault
    \/ ClockSpecNamedCursor
    \/ ClockSpecUnixTimestamp
    \/ Return

Spec == Init /\ [][Next]_vars

\* ------------------------------------------------- consumer of query results
\* The caller that keeps a file-state baseline across since-queries: Unknown
\* until the first result, Tracking afterwards.
NameAndExistsLists ==
    {fs \in SeqUpTo([name : FileNames, exists : BOOLEAN], MaxFiles) : DistinctNames(fs)}

NameAndExistsWire(f) ==
    WMap(Field("name", WStr(f.name)) @@ Field("exists", WBool(f.exists)))

FilesWires ==
    {WNull} \cup {WArr([i \in 1..Len(fs) |-> NameAndExistsWire(fs[i])]) :
                     fs \in NameAndExistsLists}

\* the results the server may send
QueryResultWires ==
    {WMap(Field("version", WStr("4.9")) @@ Entry("is_fresh_instance", fresh)
          @@ Entry("files", files)) :
        fresh \in OptionOf({WBool(TRUE), WBool(FALSE), WNull}),
        files \in OptionOf(FilesWires)}

\* the results of a query since the null clock: a fresh instance
FreshResultWires ==
    {w \in QueryResultWires :
        "is_fresh_instance" \in Keys(w) /\ w.m["is_fresh_instance"] = WBool(TRUE)}

RECURSIVE ApplyDeltaFrom(_, _, _)
ApplyDeltaFrom(b, files, i) ==
    IF i > Len(files) THEN b
    ELSE ApplyDeltaFrom(IF files[i].exists THEN b \cup {files[i].name}
                        ELSE b \ {files[i].name},
                        files, i + 1)

\* an incremental result: add, update or remove by filename
ApplyDelta(b, files) == ApplyDeltaFrom(b, files, 1)

\* a fresh instance: the retained state is dropped, the list is the new state
Rebuild(files) == ApplyDelta({}, files)

\* the consumer's reading of the files field: the list when there is one, and
\* nothing to apply when the field is None (the decode keeps None and an
\* empty list apart)
FilesOf(r) == IF r.files.some THEN r.files.v ELSE <<>>

\* one result is decoded and applied; a result that fails to decode is
\* reported to the caller and changes nothing
Receive(since, w) ==
    \E r \in DeserializeQueryResult(w, DeserializeNameAndExistsVec(FilesValue(w))) :
        /\ op' = "receive"
        /\ arg' = [since |-> since, result |-> w, prior |-> baseline, was |-> cstate]
        /\ res' = r
        /\ IF r.kind # "ok"
           THEN UNCHANGED <<cstate, baseline>>
           ELSE /\ cstate' = "Tracking"
                /\ baseline' =
                      IF cstate = "Unknown" \/ r.v.is_fresh_instance
                      THEN Rebuild(FilesOf(r.v))
                      ELSE ApplyDelta(baseline, FilesOf(r.v))

\* Unknown: the first query is made since the null clock
QueryFirst ==
    /\ cstate = "Unknown"
    /\ \E w \in FreshResultWires : Receive(ClockOfSpec(ClockSpec_null), w)

\* Tracking: the next query is made since the last clock
QueryLater ==
    /\ cstate = "Tracking"
    /\ \E w \in QueryResultWires : Receive(ClockOfSpec(ClockSpec("c:1:2")), w)

ConsumerNext == QueryFirst \/ QueryLater

ConsumerSpec == Init /\ [][ConsumerNext]_vars

\* ------------------------------------------------------------------- claims
KnownToken(w) == w.t = "str" /\ w.s \in FileTypeTokens

\* C1: FileType encode/decode is a bijection between the 8 variants and the 8
\* tokens b c d f p l s D: decode(encode(v)) = v, distinct variants have
\* distinct tokens, encode(decode(t)) = t for each of the 8 tokens, and nothing
\* outside the 8 tokens decodes to a variant.
C1_FileTypeBijection ==
    /\ op = "encodeFileType" =>
          /\ KnownToken(res)
          /\ DeserializeFileType(res) = Ok(arg)
          /\ \A v2 \in FileTypeVariants \ {arg} : SerializeFileType(v2) # res
    /\ (op = "decodeFileType" /\ KnownToken(arg)) =>
          /\ res.kind = "ok"
          /\ res.v \in FileTypeVariants
          /\ SerializeFileType(res.v) = arg
    /\ (op = "decodeFileType" /\ ~KnownToken(arg)) => res.kind # "ok"
    /\ Cardinality({SerializeFileType(v) : v \in FileTypeVariants}) = 8
    /\ {SerializeFileType(v).s : v \in FileTypeVariants} = FileTypeTokens

\* C1 witness: the token D has been decoded to SolarisDoor
C1_Witness ==
    op = "decodeFileType" /\ arg = WStr("D") /\ res.kind = "ok" /\ res.v = "SolarisDoor"

\* C2 (as claimed): decoding a file-type string outside the 8 tokens ends in
\* an error outcome returned to the caller of the decode, never in a variant.
C2_UnknownTokenIsError ==
    (op = "decodeFileType" /\ arg.t = "str" /\ arg.s \notin FileTypeTokens)
        => res.kind = "err"

\* C3: sync_timeout is absent from a clock request's parameter record iff the
\* value is DisableCookie, and absent from a query parameter bundle iff the
\* value is Default.
C3_SyncTimeoutOmission ==
    /\ op = "encodeClockRequest" =>
          /\ ("sync_timeout" \notin Keys(res.a[3])) <=> (arg.sync_timeout.tag = "DisableCookie")
          /\ "sync_timeout" \in Keys(res.a[3]) =>
                res.a[3].m["sync_timeout"] = WInt(SyncTimeout_into(arg.sync_timeout))
    /\ op = "encodeQueryRequest" =>
          /\ ("sync_timeout" \notin Keys(res.a[3])) <=> (arg.sync_timeout.tag = "Default")
          /\ "sync_timeout" \in Keys(res.a[3]) =>
                res.a[3].m["sync_timeout"] = WInt(SyncTimeout_into(arg.sync_timeout))

\* C3 witness: a clock request with the Default timeout carries the key
C3_Witness ==
    /\ op = "encodeClockRequest"
    /\ arg.sync_timeout.tag = "Default"
    /\ "sync_timeout" \in Keys(res.a[3])

\* C4 (as claimed): SyncTimeout encodes to one signed 64-bit integer: Default
\* to 60000, DisableCookie to 0, Duration(d) to the millisecond value of d.
C4_SyncTimeoutEncoding ==
    op = "encodeSyncTimeout" =>
        /\ res.t = "int"
        /\ arg.tag = "Default" => res.n = I64(60000)
        /\ arg.tag = "DisableCookie" => res.n = I64(0)
        /\ arg.tag = "Duration" =>
              /\ ~IsNegative(res.n)
              /\ ZeroExtend(res.n, Limbs128) = as_millis(arg.d)

\* C5 (as claimed): a zero duration yields DisableCookie, any positive
\* duration yields the Duration variant.
C5_PositiveIsDuration ==
    op = "syncTimeoutFrom" =>
        IF IsZero(arg.secs) /\ arg.nanos = 0
        THEN res = StDisableCookie
        ELSE res = StDuration(arg)

\* C5 (amended): a duration shorter than one millisecond, zero included,
\* yields DisableCookie and never a Duration variant; a duration of one
\* millisecond or more yields the Duration variant carrying that duration.
C5_SubMillisecondIsDisableCookie ==
    op = "syncTimeoutFrom" =>
        IF IsZero(arg.secs) /\ arg.nanos < 1000000
        THEN res = StDisableCookie
        ELSE res = StDuration(arg)

\* C5 witness: a positive duration below one millisecond became DisableCookie
C5_Witness ==
    /\ op = "syncTimeoutFrom"
    /\ IsZero(arg.secs)
    /\ arg.nanos = 999999
    /\ res = StDisableCookie

BundleFlags ==
    {"glob_noescape", "glob_includedotfiles", "empty_on_fresh_instance",
     "case_sensitive", "dedup_results"}

BundleOptionals ==
    {"glob", "path", "suffix", "since", "relative_root", "expression",
     "lock_timeout", "request_id"}

\* C6: in a query parameter bundle `fields` is always on the wire, each of the
\* five flags is on the wire iff it is true, each of the eight optionals is on
\* the wire iff it is set and is never null; a bundle of defaults carries none
\* of those keys and case_sensitive = true adds exactly that key.
C6_QueryBundleKeys ==
    op = "encodeQueryRequest" =>
        LET m == res.a[3].m
        IN  /\ "fields" \in DOMAIN m
            /\ m["fields"].t = "arr"
            /\ Len(m["fields"].a) = Len(arg.fields)
            /\ \A f \in BundleFlags :
                  /\ f \in DOMAIN m <=> arg[f]
                  /\ f \in DOMAIN m => m[f] = WBool(TRUE)
            /\ \A k \in BundleOptionals :
                  /\ k \in DOMAIN m <=> arg[k].some
                  /\ k \in DOMAIN m => m[k].t # "null"
            /\ DOMAIN m \subseteq BundleFlags \cup BundleOptionals \cup {"fields", "sync_timeout"}
            /\ arg = QueryRequestCommon_default => DOMAIN m = {"fields"}
            /\ arg = [QueryRequestCommon_default EXCEPT !.case_sensitive = TRUE]
                  => DOMAIN m = {"fields", "case_sensitive"}

\* C6 witness: the bundle of defaults with case_sensitive set has been encoded
C6_Witness ==
    /\ op = "encodeQueryRequest"
    /\ arg = [QueryRequestCommon_default EXCEPT !.case_sensitive = TRUE]
    /\ Keys(res.a[3]) = {"fields", "case_sensitive"}

\* the wire result says it is a fresh instance
WireFresh(w) ==
    "is_fresh_instance" \in Keys(w) /\ w.m["is_fresh_instance"] = WBool(TRUE)

\* the names a wire result lists with the given `exists`
WireNames(w, e) ==
    IF "files" \in Keys(w) /\ w.m["files"].t = "arr"
    THEN {w.m["files"].a[i].m["name"].s :
             i \in {j \in 1..Len(w.m["files"].a) :
                       w.m["files"].a[j].m["exists"] = WBool(e)}}
    ELSE {}

\* C7: the consumer starts in Unknown with nothing retained; the first result
\* moves it to Tracking with that result's file set as baseline; in Tracking a
\* result whose is_fresh_instance is false (or missing) is merged by filename,
\* and after a result whose is_fresh_instance is true the baseline is exactly
\* that result's file list, so no file retained before and absent from the
\* list survives.
C7_FreshInstanceReplaces ==
    /\ cstate = "Unknown" => baseline = {}
    /\ (op = "receive" /\ res.kind = "ok") =>
          /\ cstate = "Tracking"
          /\ (arg.was = "Unknown" \/ WireFresh(arg.result)) =>
                baseline = WireNames(arg.result, TRUE)
          /\ (arg.was = "Tracking" /\ ~WireFresh(arg.result)) =>
                baseline = (arg.prior \ WireNames(arg.result, FALSE))
                               \cup WireNames(arg.result, TRUE)
    /\ (op = "receive" /\ res.kind # "ok") =>
          /\ cstate = arg.was
          /\ baseline = arg.prior

\* C7 witness: in Tracking a fresh-instance result dropped a retained file
C7_Witness ==
    /\ op = "receive"
    /\ res.kind = "ok"
    /\ arg.was = "Tracking"
    /\ WireFresh(arg.result)
    /\ arg.prior \ baseline # {}
    /\ baseline # {}

\* the keys a record of Option fields puts on the wire, none of them null
OmitsAbsent(rec, w, names, keys) ==
    /\ w.t = "map"
    /\ \A i \in 1..Len(names) :
          /\ keys[i] \in DOMAIN w.m <=> rec[names[i]].some
          /\ keys[i] \in DOMAIN w.m => w.m[keys[i]].t # "null"

\* C8 (as claimed): writing a subscription bundle whose since clock carries
\* source-control metadata and reading the clock back preserves every optional
\* sub-field: what was set reads back equal, what was absent is left off the
\* wire (never written as null) and reads back absent.
C8_ScmRoundTrip ==
    (/\ op = "roundTripSubscribe"
     /\ arg.since.some
     /\ arg.since.v.tag = "ScmAware"
     /\ arg.since.v.fat.scm.some) =>
        LET scm  == arg.since.v.fat.scm.v
            wscm == res.wire.a[4].m["since"].m["scm"]
        IN  /\ res.since = Ok(arg.since)
            /\ OmitsAbsent(scm, wscm, <<"mergebase", "mergebase_with", "saved_state">>,
                           <<"mergebase", "mergebase-with", "saved-state">>)
            /\ scm.saved_state.some =>
                  OmitsAbsent(scm.saved_state.v, wscm.m["saved-state"],
                              <<"storage", "commit", "config">>,
                              <<"storage", "commit-id", "config">>)

\* a response record of the server that reports an error
ReportsError(w) ==
    /\ w.t = "map"
    /\ "version" \in DOMAIN w.m
    /\ w.m["version"].t = "str"
    /\ "error" \in DOMAIN w.m
    /\ w.m["error"].t = "str"

\* the outcome hands the server's error message to the caller
CarriesError(r, e) ==
    /\ r.kind = "ok"
    /\ "error" \in DOMAIN r.v
    /\ r.v.error = Some(e)

\* C9 (as claimed): an `error` field on a get-sockname or clock response is
\* surfaced to the caller by the decode, carrying the server's message.
C9_ServerErrorSurfaced ==
    (op \in {"decodeGetSockNameResponse", "decodeClockResponse"} /\ ReportsError(arg))
        => CarriesError(res, arg.m["error"].s)

\* a content-hash payload of one of the two shapes
HashShaped(w) ==
    \/ w.t = "str"
    \/ w.t = "map" /\ "error" \in DOMAIN w.m /\ w.m["error"].t = "str"

\* a response record with a version and a list of file records that each hold
\* a name and a content-hash payload
HashResultShaped(w) ==
    /\ w.t = "map"
    /\ {"version", "files"} \subseteq DOMAIN w.m
    /\ w.m["version"].t = "str"
    /\ w.m["files"].t = "arr"
    /\ \A i \in 1..Len(w.m["files"].a) :
          LET f == w.m["files"].a[i]
          IN  /\ f.t = "map"
              /\ {"name", "content.sha1hex"} \subseteq DOMAIN f.m
              /\ f.m["name"].t = "str"

\* C10: a content-hash payload is dispatched on its shape alone: a record with
\* an `error` key decodes to Error carrying the message, a bare string to
\* Hash; a response with an Error-shaped hash for a file decodes as a whole.
C10_ContentHashShapes ==
    /\ op = "decodeContentSha1Hex" =>
          /\ arg.t = "str" => res = Ok(ShaHash(arg.s))
          /\ (arg.t = "map" /\ HashShaped(arg)) => res = Ok(ShaError(arg.m["error"].s))
    /\ (op = "decodeHashResult" /\ HashResultShaped(arg)) =>
          LET ws == arg.m["files"].a
          IN  (\A i \in 1..Len(ws) : HashShaped(ws[i].m["content.sha1hex"])) =>
                  /\ res.kind = "ok"
                  /\ res.v.files.some
                  /\ Len(res.v.files.v) = Len(ws)
                  /\ \A i \in 1..Len(ws) :
                        LET p == ws[i].m["content.sha1hex"]
                        IN  res.v.files.v[i].hash =
                                IF p.t = "str" THEN ShaHash(p.s)
                                ELSE ShaError(p.m["error"].s)

\* C10 witness: a decoded response holds a Hash for one file and an Error for
\* another
C10_Witness ==
    /\ op = "decodeHashResult"
    /\ res.kind = "ok"
    /\ \E i, j \in 1..Len(res.v.files.v) :
          /\ res.v.files.v[i].hash.tag = "Hash"
          /\ res.v.files.v[j].hash = ShaError("no such file")

\* a value of at most 31 bits as a number
SmallValue(x) == x[1] + x[2] * LimbBase

IsSmall(x) == x[3] = 0 /\ x[4] = 0 /\ x[2] < LimbBase \div 2

\* the decimal text of a timestamp, from the number itself
DecimalText(x) ==
    CASE x = I64Max  -> "9223372036854775807"
      [] x = I64Min  -> "-9223372036854775808"
      [] x = TwoTo32 -> "4294967296"
      [] IsSmall(x)  -> ToString(SmallValue(x))
      [] ~IsNegative(x) -> "?"
      [] IsSmall(Negate(x)) -> "-" \o ToString(SmallValue(Negate(x)))
      [] OTHER -> "?"

\* C11: ClockSpec::null() and the default ClockSpec are the token "c:0:0",
\* named_cursor(name) is "n:" followed by name unchanged, unix_timestamp(t)
\* is the decimal string of t.
C11_ClockSpecConstructors ==
    /\ op \in {"clockSpecNull", "clockSpecDefault"} => res = ClockSpec("c:0:0")
    /\ op = "clockSpecNamedCursor" =>
          /\ res.token = "n:" \o arg
          /\ Len(res.token) = Len(arg) + 2
          /\ arg = "foo" => res.token = "n:foo"
          /\ arg = "n:foo" => res.token = "n:n:foo"
          /\ arg = "" => res.token = "n:"
    /\ op = "clockSpecUnixTimestamp" =>
          /\ res.token = DecimalText(arg)
          /\ arg = I64(0) => res.token = "0"
          /\ arg = I64(1500000000) => res.token = "1500000000"
          /\ arg = Negate(I64(1)) => res.token = "-1"

\* C11 witness: a ten-digit timestamp has been written out
C11_Witness ==
    /\ op = "clockSpecUnixTimestamp"
    /\ arg = I64(1500000000)
    /\ res.token = "1500000000"

\* the wire value is a record with a token under the clock key and, under the
\* scm key, nothing, null or a readable scm record
FatShaped(w) ==
    /\ w.t = "map"
    /\ "clock" \in DOMAIN w.m
    /\ w.m["clock"].t = "str"
    /\ DeserializeOption(w.m, "scm", DeserializeScmAware(w.m["scm"])).kind = "ok"

\* C12: a bare token string decodes to the plain-token Clock, a record with a
\* clock key (with or without scm) decodes to the structured Clock, a value of
\* neither shape fails to decode; a plain-token Clock is written as the bare
\* string, and decoding what was encoded gives back the same Clock.
C12_ClockShapes ==
    /\ op = "decodeClock" =>
          /\ arg.t = "str" => res = Ok(ClockOfSpec(ClockSpec(arg.s)))
          /\ FatShaped(arg) =>
                /\ res.kind = "ok"
                /\ res.v.tag = "ScmAware"
                /\ res.v.fat.clock = ClockSpec(arg.m["clock"].s)
          /\ (arg.t # "str" /\ ~(arg.t = "map" /\ "clock" \in DOMAIN arg.m)) =>
                res = Err
    /\ op = "roundTripClock" =>
          /\ arg.tag = "Spec" => res.wire = WStr(arg.spec.token)
          /\ arg.tag = "ScmAware" => res.wire.t = "map"
          /\ res.back = Ok(arg)

\* C13: for every SyncTimeout, a Duration built directly by the caller
\* included, the encoded signed 64-bit integer is not negative and equals the
\* whole-millisecond count of the duration, without wrap-around or truncation;
\* and the encoded integer is 0 only for DisableCookie.
C13_SyncTimeoutRange ==
    op = "encodeSyncTimeout" =>
        /\ ~IsNegative(res.n)
        /\ arg.tag = "Duration" => ZeroExtend(res.n, Limbs128) = as_millis(arg.d)
        /\ IsZero(res.n) => arg.tag = "DisableCookie"

====
